---- MODULE Spec2Model ----
(***************************************************************************)
(* GCP-Bucket-Loader: one run of the command-line program, from the flags  *)
(* it was started with to process exit.                                    *)
(*                                                                         *)
(* Two programs live in the repository:                                    *)
(*   "loader"   - src/unnamed/part_000, GCP-Bucket-Loader v2.1 (upload and *)
(*                download, -public, -timeout);                            *)
(*   "uploader" - src/main.go, GCP-Bucket-Uploader v1.0 (upload only).     *)
(*                                                                         *)
(* The storage SDK, the file system and the logger are the environment:    *)
(* every call into them is an event of `trace`, and its outcome is drawn   *)
(* from the outcomes the remote bucket and the local path allow.           *)
(* log.Fatalln prints and calls os.Exit(1): deferred calls do not run.     *)
(* Integers of the 64-bit build are kept as 8 little-endian bytes.         *)
(***************************************************************************)
EXTENDS Integers, Sequences, FiniteSets, TLC

VARIABLES
    variant,       \* which program runs: "loader" or "uploader"
    appFlag,       \* the AppFlagStruct filled by parseAppFlag
    bucketExists,  \* remote: the bucket exists
    objectSize,    \* remote: size of the object, -1 when it does not exist
    localFile,     \* local path: [kind, size]
    pc,            \* position of the single goroutine
    ctx,           \* the deadline context: [state, timeout]
    client,        \* the storage client: [state, option, keyPath]
    file,          \* the *os.File handle: "none", "open", "closed"
    stream,        \* the storage Writer/Reader: [state, contentType]
    deferred,      \* deferred calls of the running function, in defer order
    bytes,         \* the count io.Copy returned
    trace,         \* every external call and log line so far, in order
    exitCode       \* -1 while running, then the process exit status

vars == <<variant, appFlag, bucketExists, objectSize, localFile, pc, ctx, client,
          file, stream, deferred, bytes, trace, exitCode>>

(***************************************************************************)
(* Bounds                                                                  *)
(***************************************************************************)
\* largest size, in bytes, of the local file and of the remote object
MaxSize == 2

(***************************************************************************)
(* 64-bit integers as 8 little-endian bytes                                *)
(***************************************************************************)
\* a small untyped constant (n < 2^24) as a 64-bit integer
U64(n) == [i \in 1..8 |-> IF i <= 3 THEN (n \div (256 ^ (i - 1))) % 256 ELSE 0]

\* column k (0-based) of the schoolbook product of two 8-byte numbers
Column(a, b, k) ==
    LET idx == {i \in 0..7 : k - i >= 0 /\ k - i <= 7}
        RECURSIVE Sum(_)
        Sum(S) == IF S = {} THEN 0
                  ELSE LET i == CHOOSE x \in S : TRUE
                       IN a[i + 1] * b[k - i + 1] + Sum(S \ {i})
    IN Sum(idx)

\* the 16 bytes of the exact product a * b
RECURSIVE MulDigits(_, _, _, _)
MulDigits(a, b, k, carry) ==
    IF k > 15 THEN <<>>
    ELSE LET t == Column(a, b, k) + carry
         IN <<t % 256>> \o MulDigits(a, b, k + 1, t \div 256)

MulWide(a, b) == MulDigits(a, b, 0, 0)

\* Go's int64 multiplication: the product modulo 2^64
Mul64(a, b) == SubSeq(MulWide(a, b), 1, 8)

\* the 8 bytes read as a two's complement int64
IsNegative(x) == x[8] >= 128
IsZero(x) == \A i \in 1..8 : x[i] = 0
LeqZero(x) == IsNegative(x) \/ IsZero(x)

\* int(u) for a uint u: the same 64 bits, now read as signed
IntOfUint(u) == [i \in 1..8 |-> u[i]]

\* time.Second, in nanoseconds: 1000000000 = 0x3B9ACA00
Second == <<0, 202, 154, 59, 0, 0, 0, 0>>

(***************************************************************************)
(* Strings whose characters matter are sequences of code points            *)
(***************************************************************************)
Upload == <<117, 112, 108, 111, 97, 100>>
Download == <<100, 111, 119, 110, 108, 111, 97, 100>>

\* simple case folding of an ASCII code point
Fold(c) == IF c >= 65 /\ c <= 90 THEN c + 32 ELSE c

\* strings.EqualFold on ASCII strings
EqualFold(s, t) ==
    /\ Len(s) = Len(t)
    /\ \A i \in 1..Len(s) : Fold(s[i]) = Fold(t[i])

(***************************************************************************)
(* Flag values the runs are started with                                   *)
(***************************************************************************)
\* -action: "", "upload", "download", "UPLOAD", "DownLoad", "uploaf"
ActionInputs ==
    {<<>>, Upload, Download, <<85, 80, 76, 79, 65, 68>>,
     <<68, 111, 119, 110, 76, 111, 97, 100>>, <<117, 112, 108, 111, 97, 102>>}

\* -file, -bucket, -object, -key: only emptiness matters to the program
PathInputs == {"", "p"}

\* -type
TypeInputs == {"", "text/plain"}

\* -timeout, a uint: 0, 1, 60, 9223372036, 9223372037, 2^63, 2^64 - 1
TimeoutInputs ==
    {<<0, 0, 0, 0, 0, 0, 0, 0>>, <<1, 0, 0, 0, 0, 0, 0, 0>>,
     <<60, 0, 0, 0, 0, 0, 0, 0>>, <<4, 125, 193, 37, 2, 0, 0, 0>>,
     <<5, 125, 193, 37, 2, 0, 0, 0>>, <<0, 0, 0, 0, 0, 0, 0, 128>>,
     <<255, 255, 255, 255, 255, 255, 255, 255>>}

\* the AppFlagStruct of the loader after parseAppFlag
LoaderFlags ==
    [ActionType : ActionInputs, FilePath : PathInputs, BucketName : PathInputs,
     ObjectPath : PathInputs, KeyPath : PathInputs, ContentType : TypeInputs,
     ExtraChecks : BOOLEAN, PublicRequest : BOOLEAN, TimeoutValue : TimeoutInputs]

\* the AppFlagStruct of the uploader: no action, public or timeout flag exists,
\* the fields are kept at their zero values
UploaderFlags ==
    [ActionType : {<<>>}, FilePath : PathInputs, BucketName : PathInputs,
     ObjectPath : PathInputs, KeyPath : PathInputs, ContentType : TypeInputs,
     ExtraChecks : BOOLEAN, PublicRequest : {FALSE},
     TimeoutValue : {<<0, 0, 0, 0, 0, 0, 0, 0>>}]

\* the local path before the run.  size is the length of a regular file and,
\* for a path that is not one (FIFO, device, directory), the number of bytes
\* it delivers to a reader
LocalFiles ==
    {[kind |-> "absent", size |-> 0]}
        \cup [kind : {"regular", "irregular"}, size : 0..MaxSize]

(***************************************************************************)
(* Events and messages                                                     *)
(***************************************************************************)
Ev(op, res) == [op |-> op, res |-> res]

Calls(op) == {i \in 1..Len(trace) : trace[i].op = op}
Count(op) == Cardinality(Calls(op))
Logged(op, msg) == \E i \in 1..Len(trace) : trace[i] = Ev(op, msg)

NoCtx == [state |-> "none", timeout |-> <<0, 0, 0, 0, 0, 0, 0, 0>>]
NoClient == [state |-> "none", option |-> "none", keyPath |-> ""]
NoStream == [state |-> "none", contentType |-> ""]

Init ==
    /\ variant \in {"loader", "uploader"}
    /\ appFlag \in (IF variant = "loader" THEN LoaderFlags ELSE UploaderFlags)
    /\ bucketExists \in BOOLEAN
    /\ objectSize \in (IF bucketExists THEN -1..MaxSize ELSE {-1})
    /\ localFile \in LocalFiles
    /\ pc = "main_validate"
    /\ ctx = NoCtx
    /\ client = NoClient
    /\ file = "none"
    /\ stream = NoStream
    /\ deferred = <<>>
    /\ bytes = 0
    /\ trace = <<Ev("LogAlways.Println", "HELLO MSG")>>
    /\ exitCode = -1

\* the run goes on to the next statement, having made the calls `evs`
Step(evs, next) ==
    /\ trace' = trace \o evs
    /\ pc' = next
    /\ exitCode' = exitCode

\* LogErr.Fatalln(msg): print, then os.Exit(1); no deferred call runs
Fatalln(evs, msg) ==
    /\ trace' = trace \o evs \o <<Ev("LogErr.Fatalln", msg)>>
    /\ pc' = "exited"
    /\ exitCode' = 1

(***************************************************************************)
(* main of the loader                                                      *)
(***************************************************************************)
\* the mandatory check without its last operand
MissingMandatory_NoObject(f) ==
    f.ActionType = <<>> \/ f.FilePath = "" \/ f.BucketName = ""

MissingMandatory(f) ==
    f.ActionType = <<>> \/ f.FilePath = "" \/ f.BucketName = "" \/ f.ObjectPath = ""

MissingKey(f) == ~f.PublicRequest /\ f.KeyPath = ""

UnusedKey(f) == f.PublicRequest /\ f.KeyPath # ""

MainValidate ==
    /\ pc = "main_validate"
    /\ variant = "loader"
    /\ IF MissingMandatory(appFlag)
       THEN Fatalln(<<>>, "All mandatory parameters must be filled!")
       ELSE IF MissingKey(appFlag)
       THEN Fatalln(<<>>, "Key parameter is mandatory when public is not set!")
       ELSE Step(IF UnusedKey(appFlag)
                 THEN <<Ev("LogWarn.Println",
                           "Key parameter is unnessary and discarded when public is set!")>>
                 ELSE <<>>,
                 "main_createContext")
    /\ UNCHANGED <<variant, appFlag, bucketExists, objectSize, localFile, ctx, client,
                   file, stream, deferred, bytes>>

DefaultTimeout == 60

\* the timeoutDuration createContext computes from its int argument
createContext(timeoutValue) ==
    IF LeqZero(timeoutValue)
    THEN Mul64(Second, U64(DefaultTimeout))
    ELSE Mul64(Second, timeoutValue)

MainCreateContext ==
    /\ pc = "main_createContext"
    /\ ctx' = [state |-> "live",
               timeout |-> createContext(IntOfUint(appFlag.TimeoutValue))]
    /\ Step(<<Ev("context.WithTimeout", "ok")>>, "main_createClient")
    /\ UNCHANGED <<variant, appFlag, bucketExists, objectSize, localFile, client,
                   file, stream, deferred, bytes>>

\* createClient without the branch on PublicRequest
clientOption_AlwaysKey(PublicRequest, keyPath) ==
    [option |-> "WithCredentialsFile", keyPath |-> keyPath]

\* the option createClient hands to storage.NewClient
clientOption(PublicRequest, keyPath) ==
    IF PublicRequest
    THEN [option |-> "WithoutAuthentication", keyPath |-> ""]
    ELSE [option |-> "WithCredentialsFile", keyPath |-> keyPath]

NewClientFatal(res) == res # "ok"

MainCreateClient ==
    /\ pc = "main_createClient"
    /\ \E res \in {"ok", "err"} :
        LET opt == clientOption(appFlag.PublicRequest, appFlag.KeyPath)
            ev == Ev("storage.NewClient", res)
        IN IF NewClientFatal(res)
           THEN /\ Fatalln(<<ev>>, "Cannot create new storage client!")
                /\ client' = [state |-> "none", option |-> opt.option,
                              keyPath |-> opt.keyPath]
           ELSE /\ Step(<<ev>>, "main_dispatch")
                /\ client' = [state |-> "open", option |-> opt.option,
                              keyPath |-> opt.keyPath]
    /\ UNCHANGED <<variant, appFlag, bucketExists, objectSize, localFile, ctx,
                   file, stream, deferred, bytes>>

IsUpload(f) == EqualFold(f.ActionType, Upload)
IsDownload(f) == EqualFold(f.ActionType, Download)

MainDispatch ==
    /\ pc = "main_dispatch"
    /\ IF IsUpload(appFlag) THEN Step(<<>>, "up_enter")
       ELSE IF IsDownload(appFlag) THEN Step(<<>>, "dl_enter")
       ELSE Fatalln(<<>>, "Wrong action parameter specified!")
    /\ UNCHANGED <<variant, appFlag, bucketExists, objectSize, localFile, ctx, client,
                   file, stream, deferred, bytes>>

\* uploadFile returned (or downloadFile): the duration line, then exit status 0
MainBye ==
    /\ pc = "main_bye"
    /\ trace' = Append(trace, Ev("LogAlways.Println", "BYE MSG"))
    /\ pc' = "exited"
    /\ exitCode' = 0
    /\ UNCHANGED <<variant, appFlag, bucketExists, objectSize, localFile, ctx, client,
                   file, stream, deferred, bytes>>

(***************************************************************************)
(* Outcomes the environment can give a call                                *)
(***************************************************************************)
\* "other" is any error that is not the not-exist sentinel (deadline exceeded,
\* permission denied, transport failure)
BktAttrsResults == IF bucketExists THEN {"ok", "other"} ELSE {"ErrBucketNotExist", "other"}

ObjAttrsResults == IF objectSize >= 0 THEN {"ok", "other"} ELSE {"ErrObjectNotExist", "other"}

NewReaderResults == ObjAttrsResults

\* os.Open for reading: the path must exist
OpenResults == IF localFile.kind = "absent" THEN {"err"} ELSE {"ok", "err"}

\* io.Copy returns (written, err); err is nil only when the source was read to EOF
CopyResults(size) ==
    {r \in [n : 0..size, res : {"ok", "err"}] : r.n < size => r.res = "err"}

\* bytes io.Copy can read from the opened local path, regular file or not
ReadableSize == localFile.size

\* Writer.Close commits the object; it cannot succeed without the bucket
WriterCloseResults == IF bucketExists THEN {"ok", "err"} ELSE {"err"}

(***************************************************************************)
(* Deferred calls                                                          *)
(***************************************************************************)
\* the calls a returning function makes: its deferred calls, last one first
RECURSIVE RunDeferred(_)
RunDeferred(d) ==
    IF d = <<>> THEN <<>>
    ELSE <<Ev(d[Len(d)], "deferred")>> \o RunDeferred(SubSeq(d, 1, Len(d) - 1))

IsDeferred(name) == \E i \in 1..Len(deferred) : deferred[i] = name

\* a function with deferred calls returns to main
Return ==
    /\ Step(RunDeferred(deferred), "main_bye")
    /\ deferred' = <<>>
    /\ ctx' = IF IsDeferred("cancel") THEN [ctx EXCEPT !.state = "cancelled"] ELSE ctx
    /\ client' = IF IsDeferred("client.Close")
                 THEN [client EXCEPT !.state = "closed"] ELSE client
    /\ file' = IF IsDeferred("file.Close") THEN "closed" ELSE file
    /\ stream' = IF IsDeferred("writer.Close") \/ IsDeferred("reader.Close")
                 THEN [stream EXCEPT !.state = "closed"] ELSE stream
    /\ UNCHANGED <<variant, appFlag, bucketExists, objectSize, localFile, bytes>>

(***************************************************************************)
(* main and the head of uploadFile of the uploader (src/main.go)           *)
(***************************************************************************)
UploaderMissingMandatory(f) ==
    f.FilePath = "" \/ f.BucketName = "" \/ f.ObjectPath = "" \/ f.KeyPath = ""

UploaderValidate ==
    /\ pc = "main_validate"
    /\ variant = "uploader"
    /\ IF UploaderMissingMandatory(appFlag)
       THEN Fatalln(<<>>, "All mandatory parameters must be filled!")
       ELSE Step(<<>>, "up_createContext")
    /\ UNCHANGED <<variant, appFlag, bucketExists, objectSize, localFile, ctx, client,
                   file, stream, deferred, bytes>>

UploaderCreateContext ==
    /\ pc = "up_createContext"
    /\ ctx' = [state |-> "live", timeout |-> Mul64(Second, U64(DefaultTimeout))]
    /\ deferred' = Append(deferred, "cancel")
    /\ Step(<<Ev("context.WithTimeout", "ok")>>, "up_createClient")
    /\ UNCHANGED <<variant, appFlag, bucketExists, objectSize, localFile, client,
                   file, stream, bytes>>

UploaderCreateClient ==
    /\ pc = "up_createClient"
    /\ \E res \in {"ok", "err"} :
        LET ev == Ev("storage.NewClient", res)
        IN IF NewClientFatal(res)
           THEN /\ Fatalln(<<ev>>, "Cannot create new storage client!")
                /\ client' = [state |-> "none", option |-> "WithCredentialsFile",
                              keyPath |-> appFlag.KeyPath]
                /\ deferred' = deferred
           ELSE /\ Step(<<ev>>, "up_open")
                /\ client' = [state |-> "open", option |-> "WithCredentialsFile",
                              keyPath |-> appFlag.KeyPath]
                /\ deferred' = Append(deferred, "client.Close")
    /\ UNCHANGED <<variant, appFlag, bucketExists, objectSize, localFile, ctx,
                   file, stream, bytes>>

(***************************************************************************)
(* uploadFile (the loader's; the uploader's is the same from os.Open on)   *)
(***************************************************************************)
\* the checks made unconditional
ExtraChecks_Always(f) == TRUE

ExtraChecksEnabled(f) == f.ExtraChecks

UploadEnter ==
    /\ pc = "up_enter"
    /\ deferred' = <<"cancel", "client.Close">>
    /\ Step(<<>>, "up_open")
    /\ UNCHANGED <<variant, appFlag, bucketExists, objectSize, localFile, ctx, client,
                   file, stream, bytes>>

OpenFatal(res) == res # "ok"

UploadOpen ==
    /\ pc = "up_open"
    /\ \E res \in OpenResults :
        LET ev == Ev("os.Open", res)
        IN IF OpenFatal(res)
           THEN /\ Fatalln(<<ev>>, "Cannot open requested file!")
                /\ UNCHANGED <<file, deferred>>
           ELSE /\ Step(<<ev>>, IF ExtraChecksEnabled(appFlag)
                                THEN "up_bktAttrs" ELSE "up_newWriter")
                /\ file' = "open"
                /\ deferred' = Append(deferred, "file.Close")
    /\ UNCHANGED <<variant, appFlag, bucketExists, objectSize, localFile, ctx, client,
                   stream, bytes>>

BktAttrsFatal(res) == res # "ok"

BktAttrsMessage(res) ==
    IF res = "ErrBucketNotExist" THEN "Bucket does not exist!"
    ELSE "Cannot fetch bucket info!"

UploadBktAttrs ==
    /\ pc = "up_bktAttrs"
    /\ \E res \in BktAttrsResults :
        LET ev == Ev("bkt.Attrs", res)
        IN IF BktAttrsFatal(res)
           THEN Fatalln(<<ev>>, BktAttrsMessage(res))
           ELSE Step(<<ev>>, "up_objAttrs")
    /\ UNCHANGED <<variant, appFlag, bucketExists, objectSize, localFile, ctx, client,
                   file, stream, deferred, bytes>>

\* upload treating a missing object the way download does
UploadObjAttrsFatal_LikeDownload(res) == res # "ok"

\* upload: a missing object is expected, only other errors are fatal
UploadObjAttrsFatal(res) == res # "ok" /\ res # "ErrObjectNotExist"

UploadObjAttrsWarning(res) ==
    IF res = "ok" THEN "Object exists, going to override it!"
    ELSE "Object does not exist, going to create a new one."

UploadObjAttrs ==
    /\ pc = "up_objAttrs"
    /\ \E res \in ObjAttrsResults :
        LET ev == Ev("obj.Attrs", res)
        IN IF UploadObjAttrsFatal(res)
           THEN Fatalln(<<ev>>, "Cannot fetch object info!")
           ELSE Step(<<ev, Ev("LogWarn.Println", UploadObjAttrsWarning(res))>>,
                     "up_newWriter")
    /\ UNCHANGED <<variant, appFlag, bucketExists, objectSize, localFile, ctx, client,
                   file, stream, deferred, bytes>>

\* writer.ContentType after `if appFlag.ContentType != ""`
WriterContentType(f, contentType) == IF f.ContentType # "" THEN contentType ELSE ""

UploadNewWriter ==
    /\ pc = "up_newWriter"
    /\ stream' = [state |-> "open",
                  contentType |-> WriterContentType(appFlag, appFlag.ContentType)]
    /\ deferred' = Append(deferred, "writer.Close")
    /\ Step(<<Ev("obj.NewWriter", "ok")>>, "up_copy")
    /\ UNCHANGED <<variant, appFlag, bucketExists, objectSize, localFile, ctx, client,
                   file, bytes>>

\* io.Copy's error dropped
CopyFatal_Never(res) == FALSE

CopyFatal(res) == res # "ok"

UploadCopy ==
    /\ pc = "up_copy"
    /\ \E r \in CopyResults(ReadableSize) :
        LET ev == Ev("io.Copy", r.res)
        IN /\ bytes' = r.n
           /\ IF CopyFatal(r.res)
              THEN Fatalln(<<ev>>, "Cannot copy file to bucket!")
              ELSE Step(<<ev>>, "up_close")
    /\ UNCHANGED <<variant, appFlag, bucketExists, objectSize, localFile, ctx, client,
                   file, stream, deferred>>

CloseFatal(res) == res # "ok"

UploadClose ==
    /\ pc = "up_close"
    /\ \E res \in WriterCloseResults :
        LET ev == Ev("writer.Close", res)
        IN /\ stream' = [stream EXCEPT !.state = "closed"]
           /\ objectSize' = IF res = "ok" THEN bytes ELSE objectSize
           /\ IF CloseFatal(res)
              THEN Fatalln(<<ev>>, "Cannot write file to bucket!")
              ELSE Step(<<ev>>, "up_report")
    /\ UNCHANGED <<variant, appFlag, bucketExists, localFile, ctx, client,
                   file, deferred, bytes>>

ReAttrsFatal(res) == res # "ok"

UploadReport ==
    /\ pc = "up_report"
    /\ IF ExtraChecksEnabled(appFlag)
       THEN \E res \in ObjAttrsResults :
                LET ev == Ev("obj.Attrs", res)
                IN IF ReAttrsFatal(res)
                   THEN Fatalln(<<ev>>, "Cannot fetch object info!")
                   ELSE Step(<<ev, Ev("LogInfo.Println", "SUCCESS")>>, "up_return")
       ELSE Step(<<Ev("LogInfo.Println", "SUCCESS")>>, "up_return")
    /\ UNCHANGED <<variant, appFlag, bucketExists, objectSize, localFile, ctx, client,
                   file, stream, deferred, bytes>>

UploadReturn ==
    /\ pc = "up_return"
    /\ Return

(***************************************************************************)
(* downloadFile (loader only)                                              *)
(***************************************************************************)
\* what the os.Stat block prints: nothing when Stat fails
StatWarning(f) ==
    IF f.kind = "absent" THEN <<>>
    ELSE IF f.kind = "regular"
    THEN <<Ev("LogWarn.Println", "File exists, going to override it!")>>
    ELSE <<Ev("LogWarn.Println", "Path exists but not a regular file!")>>

DownloadEnter ==
    /\ pc = "dl_enter"
    /\ deferred' = <<"cancel", "client.Close">>
    /\ Step(<<Ev("os.Stat", localFile.kind)>> \o StatWarning(localFile), "dl_create")
    /\ UNCHANGED <<variant, appFlag, bucketExists, objectSize, localFile, ctx, client,
                   file, stream, bytes>>

CreateFatal(res) == res # "ok"

\* os.Create truncates a regular file and creates a missing one; O_TRUNC
\* leaves a path that is not a regular file as it is
Created(f) == IF f.kind = "irregular" THEN f ELSE [kind |-> "regular", size |-> 0]

\* the local path after io.Copy wrote n bytes to it: a regular file holds them
Written(f, n) == IF f.kind = "regular" THEN [f EXCEPT !.size = n] ELSE f

DownloadCreate ==
    /\ pc = "dl_create"
    /\ \E res \in {"ok", "err"} :
        LET ev == Ev("os.Create", res)
        IN IF CreateFatal(res)
           THEN /\ Fatalln(<<ev>>, "Cannot create requested file!")
                /\ UNCHANGED <<file, deferred, localFile>>
           ELSE /\ Step(<<ev>>, IF ExtraChecksEnabled(appFlag)
                                THEN "dl_bktAttrs" ELSE "dl_newReader")
                /\ file' = "open"
                /\ localFile' = Created(localFile)
                /\ deferred' = Append(deferred, "file.Close")
    /\ UNCHANGED <<variant, appFlag, bucketExists, objectSize, ctx, client,
                   stream, bytes>>

DownloadBktAttrs ==
    /\ pc = "dl_bktAttrs"
    /\ \E res \in BktAttrsResults :
        LET ev == Ev("bkt.Attrs", res)
        IN IF BktAttrsFatal(res)
           THEN Fatalln(<<ev>>, BktAttrsMessage(res))
           ELSE Step(<<ev>>, "dl_objAttrs")
    /\ UNCHANGED <<variant, appFlag, bucketExists, objectSize, localFile, ctx, client,
                   file, stream, deferred, bytes>>

\* download treating a missing object the way upload does
DownloadObjAttrsFatal_LikeUpload(res) == res # "ok" /\ res # "ErrObjectNotExist"

\* download: the source object must exist
DownloadObjAttrsFatal(res) == res # "ok"

DownloadObjAttrsMessage(res) ==
    IF res = "ErrObjectNotExist" THEN "Object does not exist!"
    ELSE "Cannot fetch object info!"

DownloadObjAttrs ==
    /\ pc = "dl_objAttrs"
    /\ \E res \in ObjAttrsResults :
        LET ev == Ev("obj.Attrs", res)
        IN IF DownloadObjAttrsFatal(res)
           THEN Fatalln(<<ev>>, DownloadObjAttrsMessage(res))
           ELSE Step(<<ev, Ev("LogWarn.Println", "Object exists!")>>, "dl_newReader")
    /\ UNCHANGED <<variant, appFlag, bucketExists, objectSize, localFile, ctx, client,
                   file, stream, deferred, bytes>>

\* NewReader's error dropped
NewReaderFatal_Never(res) == FALSE

NewReaderFatal(res) == res # "ok"

DownloadNewReader ==
    /\ pc = "dl_newReader"
    /\ \E res \in NewReaderResults :
        LET ev == Ev("obj.NewReader", res)
        IN IF NewReaderFatal(res)
           THEN /\ Fatalln(<<ev>>, "Cannot create new reader!")
                /\ UNCHANGED <<stream, deferred>>
           ELSE /\ Step(<<ev>>, "dl_copy")
                /\ stream' = [state |-> "open", contentType |-> ""]
                /\ deferred' = Append(deferred, "reader.Close")
    /\ UNCHANGED <<variant, appFlag, bucketExists, objectSize, localFile, ctx, client,
                   file, bytes>>

\* bytes the reader can deliver
RemoteSize == IF objectSize >= 0 THEN objectSize ELSE 0

DownloadCopy ==
    /\ pc = "dl_copy"
    /\ \E r \in CopyResults(RemoteSize) :
        LET ev == Ev("io.Copy", r.res)
        IN /\ bytes' = r.n
           /\ localFile' = Written(localFile, r.n)
           /\ IF CopyFatal(r.res)
              THEN Fatalln(<<ev>>, "Cannot copy object from bucket!")
              ELSE Step(<<ev>>, "dl_close")
    /\ UNCHANGED <<variant, appFlag, bucketExists, objectSize, ctx, client,
                   file, stream, deferred>>

DownloadClose ==
    /\ pc = "dl_close"
    /\ \E res \in {"ok", "err"} :
        LET ev == Ev("reader.Close", res)
        IN /\ stream' = [stream EXCEPT !.state = "closed"]
           /\ IF CloseFatal(res)
              THEN Fatalln(<<ev>>, "Cannot read object from bucket!")
              ELSE Step(<<ev, Ev("LogInfo.Println", "SUCCESS")>>, "dl_return")
    /\ UNCHANGED <<variant, appFlag, bucketExists, objectSize, localFile, ctx, client,
                   file, deferred, bytes>>

DownloadReturn ==
    /\ pc = "dl_return"
    /\ Return

(***************************************************************************)
(* The run                                                                 *)
(***************************************************************************)
Next ==
    \/ MainValidate
    \/ MainCreateContext
    \/ MainCreateClient
    \/ MainDispatch
    \/ MainBye
    \/ UploaderValidate
    \/ UploaderCreateContext
    \/ UploaderCreateClient
    \/ UploadEnter
    \/ UploadOpen
    \/ UploadBktAttrs
    \/ UploadObjAttrs
    \/ UploadNewWriter
    \/ UploadCopy
    \/ UploadClose
    \/ UploadReport
    \/ UploadReturn
    \/ DownloadEnter
    \/ DownloadCreate
    \/ DownloadBktAttrs
    \/ DownloadObjAttrs
    \/ DownloadNewReader
    \/ DownloadCopy
    \/ DownloadClose
    \/ DownloadReturn

Spec == Init /\ [][Next]_vars

(***************************************************************************)
(* Vocabulary of the properties                                            *)
(***************************************************************************)
Exited == pc = "exited"

\* the run is inside (or past) uploadFile / downloadFile
UploadRun == Count("os.Open") > 0
DownloadRun == Count("os.Stat") > 0

SuccessLogged == Logged("LogInfo.Println", "SUCCESS")
ByeLogged == Logged("LogAlways.Println", "BYE MSG")

\* the last line printed is a fatal one and the exit status is 1
DiedAt(i) ==
    /\ Len(trace) = i + 1
    /\ trace[i + 1].op = "LogErr.Fatalln"
    /\ Exited
    /\ exitCode = 1

\* call i returned an error the program treats as fatal: every error but the
\* object-not-found of an upload's metadata fetch
Failed(i) ==
    \/ trace[i].res \in {"err", "other", "ErrBucketNotExist"}
    \/ trace[i].res = "ErrObjectNotExist" /\ ~UploadRun

FailFast == \A i \in 1..Len(trace) : Failed(i) => DiedAt(i)

\* obj.Attrs calls before and after the write stream was opened
WriterAt == IF Calls("obj.NewWriter") = {} THEN Len(trace) + 1
            ELSE CHOOSE i \in Calls("obj.NewWriter") : TRUE
PreAttrs == {i \in Calls("obj.Attrs") : i < WriterAt}
PostAttrs == {i \in Calls("obj.Attrs") : i > WriterAt}

\* explicit and deferred Close calls on the Writer / Reader
StreamCloses(res) ==
    {i \in Calls("writer.Close") \cup Calls("reader.Close") :
        IF res = "deferred" THEN trace[i].res = "deferred" ELSE trace[i].res # "deferred"}

SingleOps ==
    {"context.WithTimeout", "storage.NewClient", "os.Open", "os.Stat", "os.Create",
     "bkt.Attrs", "obj.NewWriter", "obj.NewReader", "io.Copy"}

OnceEach ==
    /\ \A op \in SingleOps : Count(op) <= 1
    /\ Cardinality(PreAttrs) <= 1
    /\ Cardinality(PostAttrs) <= 1

(***************************************************************************)
(* C1                                                                      *)
(***************************************************************************)
\* C1: when a run that created a session and entered uploadFile or downloadFile
\* has exited, cancel and client.Close have each been called exactly once,
\* and so has file.Close when the local file was opened.
C1_ReleasedExactlyOnce ==
    (Exited /\ client.state # "none" /\ (UploadRun \/ DownloadRun)) =>
        /\ Count("cancel") = 1
        /\ Count("client.Close") = 1
        /\ (file # "none" => Count("file.Close") = 1)

(***************************************************************************)
(* C2                                                                      *)
(***************************************************************************)
C2_Missing ==
    IF variant = "loader"
    THEN \/ appFlag.ActionType = <<>>
         \/ appFlag.FilePath = ""
         \/ appFlag.BucketName = ""
         \/ appFlag.ObjectPath = ""
    ELSE \/ appFlag.FilePath = ""
         \/ appFlag.BucketName = ""
         \/ appFlag.ObjectPath = ""
         \/ appFlag.KeyPath = ""

\* C2: a run with an empty mandatory field creates no deadline context and no
\* storage client, and the only step it takes is the fatal exit of validation.
C2_MissingMandatoryIsFatalBeforeSession ==
    C2_Missing =>
        /\ ctx = NoCtx
        /\ client = NoClient
        /\ Count("context.WithTimeout") = 0
        /\ Count("storage.NewClient") = 0
        /\ pc \in {"main_validate", "exited"}
        /\ Exited => /\ exitCode = 1
                     /\ trace[Len(trace)] =
                            Ev("LogErr.Fatalln", "All mandatory parameters must be filled!")

C2_Witness ==
    /\ C2_Missing
    /\ appFlag.ObjectPath = ""
    /\ appFlag.FilePath # ""
    /\ Exited
    /\ exitCode = 1

(***************************************************************************)
(* C3                                                                      *)
(***************************************************************************)
\* C3 as stated: every step, the stream close included, is attempted at most
\* once per run, and every failed step is followed at once by the fatal exit.
C3_EveryStepAtMostOnce ==
    /\ OnceEach
    /\ Count("writer.Close") <= 1
    /\ Count("reader.Close") <= 1
    /\ FailFast

\* C3 amended: every step is attempted at most once per run, except the stream
\* close: besides the one explicit Close, a run that returns normally from
\* uploadFile or downloadFile calls Close once more through its defer, after
\* the success line. Every failed step is followed at once by the fatal exit.
C3_SingleAttemptButDeferredClose ==
    /\ OnceEach
    /\ Cardinality(StreamCloses("explicit")) <= 1
    /\ Cardinality(StreamCloses("deferred")) <= 1
    /\ \A i \in StreamCloses("deferred") :
          /\ SuccessLogged
          /\ \E j \in StreamCloses("explicit") : j < i /\ trace[j].res = "ok"
    /\ (pc \in {"main_bye"} \/ exitCode = 0) =>
          Cardinality(StreamCloses("deferred")) = 1
    /\ FailFast

C3_Witness ==
    /\ exitCode = 0
    /\ UploadRun
    /\ Count("writer.Close") = 2
    /\ Count("io.Copy") = 1

(***************************************************************************)
(* C4                                                                      *)
(***************************************************************************)
\* a download whose remote object does not exist
C4_DownloadOfAbsent == DownloadRun /\ objectSize = -1

C4_NeverTransfers ==
    /\ Count("io.Copy") = 0
    /\ bytes = 0
    /\ ~SuccessLogged
    /\ exitCode # 0
    /\ Exited => exitCode = 1

\* the call right before the fatal line
C4_FailedCall == trace[Len(trace) - 1].op

\* C4 as stated: the download of an absent object never copies a byte and ends
\* fatally with the created local file (when a regular file) empty; the fatal
\* step is obj.Attrs
\* ("Object does not exist!") under extra-checks, with no read stream
\* opened, and obj.NewReader otherwise.
C4_FailsAtObjectStep ==
    (C4_DownloadOfAbsent /\ Logged("os.Create", "ok")) =>
        /\ C4_NeverTransfers
        /\ localFile.kind # "absent"
        /\ localFile.kind = "regular" => localFile.size = 0
        /\ Exited =>
              IF appFlag.ExtraChecks
              THEN /\ C4_FailedCall = "obj.Attrs"
                   /\ Logged("LogErr.Fatalln", "Object does not exist!")
                   /\ Count("obj.NewReader") = 0
              ELSE C4_FailedCall = "obj.NewReader"

\* C4 amended: the download of an absent object never copies a byte, never
\* reports success and ends with exit status 1; once os.Create succeeded the
\* local path exists and, when it is a regular file, is empty.  Under extra-checks no read stream is
\* opened, and whenever bkt.Attrs succeeded the fatal step is obj.Attrs
\* ("Object does not exist!" or "Cannot fetch object info!"); without
\* extra-checks no metadata is fetched and, once os.Create succeeded, the
\* fatal step is obj.NewReader.
C4_AbsentObjectNeverWritten ==
    C4_DownloadOfAbsent =>
        /\ C4_NeverTransfers
        /\ Logged("os.Create", "ok") =>
              /\ localFile.kind # "absent"
              /\ localFile.kind = "regular" => localFile.size = 0
        /\ appFlag.ExtraChecks => Count("obj.NewReader") = 0
        /\ (Exited /\ appFlag.ExtraChecks /\ Logged("bkt.Attrs", "ok")) =>
              /\ C4_FailedCall = "obj.Attrs"
              /\ \/ Logged("LogErr.Fatalln", "Object does not exist!")
                 \/ Logged("LogErr.Fatalln", "Cannot fetch object info!")
        /\ (Exited /\ ~appFlag.ExtraChecks /\ Logged("os.Create", "ok")) =>
              /\ C4_FailedCall = "obj.NewReader"
              /\ Count("obj.Attrs") = 0
              /\ Count("bkt.Attrs") = 0

C4_Witness ==
    /\ C4_DownloadOfAbsent
    /\ appFlag.ExtraChecks
    /\ Exited
    /\ Logged("LogErr.Fatalln", "Object does not exist!")
    /\ localFile = [kind |-> "regular", size |-> 0]

(***************************************************************************)
(* C5                                                                      *)
(***************************************************************************)
\* C5: in an upload, the metadata fetch made before the write stream is opened
\* follows a successful bucket fetch; with the object present or absent it is
\* followed by a warning, then obj.NewWriter, then io.Copy; with any other
\* error it is followed by the fatal exit.  In a download an absent object is
\* fatal at that fetch.
C5_UploadObjectCheckNonFatal ==
    /\ UploadRun =>
          \A i \in PreAttrs :
              /\ trace[i - 1] = Ev("bkt.Attrs", "ok")
              /\ trace[i].res = "ok" =>
                    trace[i + 1] =
                        Ev("LogWarn.Println", "Object exists, going to override it!")
              /\ trace[i].res = "ErrObjectNotExist" =>
                    trace[i + 1] =
                        Ev("LogWarn.Println",
                           "Object does not exist, going to create a new one.")
              /\ trace[i].res \in {"ok", "ErrObjectNotExist"} =>
                    /\ IF Len(trace) = i + 1
                       THEN pc = "up_newWriter" /\ exitCode = -1
                       ELSE trace[i + 2] = Ev("obj.NewWriter", "ok")
                    /\ IF Len(trace) <= i + 2
                       THEN pc \in {"up_newWriter", "up_copy"}
                       ELSE trace[i + 3].op = "io.Copy"
              /\ trace[i].res = "other" => DiedAt(i)
    /\ DownloadRun =>
          \A i \in PreAttrs : trace[i].res = "ErrObjectNotExist" => DiedAt(i)

C5_Witness ==
    /\ UploadRun
    /\ Logged("obj.Attrs", "ErrObjectNotExist")
    /\ Logged("io.Copy", "ok")
    /\ Logged("writer.Close", "ok")

(***************************************************************************)
(* C6                                                                      *)
(***************************************************************************)
C6_PublicWithKey ==
    variant = "loader" /\ appFlag.PublicRequest /\ appFlag.KeyPath # ""

C6_WarnedAndAnonymous ==
    /\ pc # "main_validate" =>
          /\ trace[2] =
                Ev("LogWarn.Println",
                   "Key parameter is unnessary and discarded when public is set!")
          /\ ~Logged("LogErr.Fatalln", "All mandatory parameters must be filled!")
          /\ ~Logged("LogErr.Fatalln", "Key parameter is mandatory when public is not set!")
    /\ client.keyPath = ""
    /\ client.option \in {"none", "WithoutAuthentication"}
    /\ Count("storage.NewClient") > 0 => client.option = "WithoutAuthentication"

\* C6 as stated: every run with -public and a non-empty -key prints the
\* warning, passes validation, and builds its client without authentication.
C6_EveryPublicWithKey == C6_PublicWithKey => C6_WarnedAndAnonymous

\* C6 amended: every run with -public, a non-empty -key and the four
\* mandatory flags (action, file, bucket, object) non-empty prints the warning,
\* is not ended by the mandatory-field or key checks, and builds its client
\* without authentication: the key path never reaches storage.NewClient.
C6_ValidPublicWithKey ==
    (C6_PublicWithKey /\ ~C2_Missing) => C6_WarnedAndAnonymous

C6_Witness ==
    /\ C6_PublicWithKey
    /\ Logged("storage.NewClient", "ok")
    /\ client.option = "WithoutAuthentication"
    /\ Logged("LogWarn.Println",
              "Key parameter is unnessary and discarded when public is set!")

(***************************************************************************)
(* C7                                                                      *)
(***************************************************************************)
\* 60 s in nanoseconds: 60000000000
C7_SixtySeconds == <<0, 88, 71, 248, 13, 0, 0, 0>>

\* d is exactly t seconds: the exact product t * 10^9 fits the int64 d
C7_ExactlySeconds(d, t) ==
    /\ ~IsNegative(d)
    /\ MulWide(Second, t) = d \o <<0, 0, 0, 0, 0, 0, 0, 0>>

\* C7: the deadline of the loader's context is 60 s when int(-timeout) <= 0
\* and exactly -timeout seconds otherwise, for every value of the flag.
C7_DeadlineIsTimeoutOrSixty ==
    (variant = "loader" /\ ctx.state # "none") =>
        IF appFlag.TimeoutValue[8] >= 128 \/ appFlag.TimeoutValue = U64(0)
        THEN ctx.timeout = C7_SixtySeconds
        ELSE C7_ExactlySeconds(ctx.timeout, appFlag.TimeoutValue)

(***************************************************************************)
(* C8                                                                      *)
(***************************************************************************)
\* C8: the success line is printed only after a run in which no call failed:
\* an upload's io.Copy and writer.Close returned nil and, under extra-checks,
\* so did the metadata re-fetch after the close; a download's io.Copy and
\* reader.Close returned nil.  The duration line is printed only after the
\* success line, exit status 0 only after the duration line, and a fatal line
\* is the last line of a run that exits with status 1.
C8_SuccessOnlyAfterAllSteps ==
    /\ SuccessLogged =>
          /\ \A i \in 1..Len(trace) : ~Failed(i)
          /\ ~Logged("LogErr.Fatalln", "Cannot fetch object info!")
          /\ Logged("io.Copy", "ok")
          /\ UploadRun =>
                /\ Logged("writer.Close", "ok")
                /\ appFlag.ExtraChecks =>
                      \E i \in PostAttrs :
                          /\ trace[i].res = "ok"
                          /\ \E j \in Calls("writer.Close") : j < i /\ trace[j].res = "ok"
          /\ DownloadRun => Logged("reader.Close", "ok")
          /\ UploadRun \/ DownloadRun
    /\ ByeLogged => SuccessLogged /\ exitCode = 0 /\ Count("LogErr.Fatalln") = 0
    /\ exitCode = 0 => ByeLogged /\ trace[Len(trace)].op = "LogAlways.Println"
    /\ Count("LogErr.Fatalln") > 0 =>
          /\ exitCode = 1
          /\ ~ByeLogged
          /\ ~SuccessLogged
          /\ trace[Len(trace)].op = "LogErr.Fatalln"
    /\ exitCode = 1 => Count("LogErr.Fatalln") = 1

C8_Witness ==
    /\ exitCode = 0
    /\ UploadRun
    /\ appFlag.ExtraChecks
    /\ ByeLogged

(***************************************************************************)
(* C9                                                                      *)
(***************************************************************************)
\* C9: a run without extra-checks never calls bkt.Attrs or obj.Attrs, and a
\* run that called either has extra-checks enabled.
C9_NoMetadataWithoutExtra ==
    ~appFlag.ExtraChecks => Count("bkt.Attrs") = 0 /\ Count("obj.Attrs") = 0

C9_Witness ==
    /\ ~appFlag.ExtraChecks
    /\ SuccessLogged
    /\ Exited
    /\ Count("bkt.Attrs") = 0

(***************************************************************************)
(* C10                                                                     *)
(***************************************************************************)
\* C10: a loader run whose non-empty action is neither "upload" nor
\* "download" under case folding creates no deadline context and no storage
\* client, and opens no local file and no remote stream.
C10_WrongActionBeforeSession ==
    (/\ variant = "loader"
     /\ appFlag.ActionType # <<>>
     /\ ~EqualFold(appFlag.ActionType, Upload)
     /\ ~EqualFold(appFlag.ActionType, Download)) =>
        /\ ctx.state = "none"
        /\ client.state = "none"
        /\ Count("context.WithTimeout") = 0
        /\ Count("storage.NewClient") = 0
        /\ file = "none"
        /\ stream.state = "none"

====
